---------------------------- MODULE Spec2Model ----------------------------
(***************************************************************************)
(* A model of the BrainIAK tutorial notebooks 02-data-handling and         *)
(* 04-dimensionality-reduction.                                            *)
(*                                                                         *)
(* Part I models a top-to-bottom run of the code cells of a notebook: the  *)
(* kernel's namespace, the data path (provenance) of every bound name, the *)
(* loops and the conditionals.                                             *)
(* Part II onwards model the data computed by single sections (run         *)
(* selection, masking, z-scoring, cross-validation), each under a          *)
(* specification of its own.                                               *)
(*                                                                         *)
(* Library calls (numpy, scikit-learn, nilearn) are modelled by their      *)
(* documented contract at the place the notebook calls them.  The helpers  *)
(* of utils.py are not part of the sources at hand; what the model assumes *)
(* of them is collected in definitions marked as such.                     *)
(***************************************************************************)
EXTENDS Integers, Sequences, FiniteSets, TLC

VARIABLES
    \* ---- Part I: a run of a notebook
    nb,          \* the notebook being run: 2 or 4
    pc,          \* index of the next statement of Program(nb)
    env,         \* the kernel namespace: bound name -> [p: data path, n: integer value]
    unbound,     \* the names a statement read while unbound (NameError); {} if none
    iter,        \* iterations left of the running for loop, -1 outside a loop
    done_iters,  \* iterations of the current or last loop that have started
    warnoptions  \* whether sys.warnoptions is non-empty in this kernel

VARIABLES
    \* ---- Parts II to V: the data of single sections
    dpc,                 \* the next statement of the section being run
    labels,              \* 02: labels of the chosen run; 04: labels of the blocks
    \* notebook 02, timing file and run selection
    stim_label_allruns,  \* rows x columns, one column per trial
    run_id, time_points_mask, time_secs,
    \* notebook 02, masking
    epi_data,            \* voxel (flattened volume) -> time series
    mask,                \* voxel -> in the ROI or not
    maskedData,          \* time x voxels
    \* notebook 02, z-scoring
    scaler, maskedData_zscore,
    zscore_history,      \* every value assigned to maskedData_zscore, in order
    masked_loaded,       \* maskedData as the masking cell left it
    voxel_mean, voxel_std,
    \* notebook 04, PCA, decoding and cross-validation
    run_ids,             \* run id of every block
    bold_normalized,     \* one value per block
    other_normalized,    \* a second data set, differing in the blocks of one run
    pca, bold_pca_normalized, models_pca,
    ps, clf_pipe, other_clf_pipe,
    printed,             \* the folds the train/test cell has printed
    \* notebook 04, block averaging
    bold_data_raw,       \* one value per trial
    labels_raw, run_ids_raw,
    bold_data,           \* one average per block, as [sum, n]: sum / n
    \* notebook 02, simulated data
    activity, cond_labels,
    face_labels, scene_labels, baseline_labels,
    face_activity, scene_activity, baseline_activity,
    raised               \* the exception that stopped the cell, "" if none

nbvars == <<nb, pc, env, unbound, iter, done_iters, warnoptions>>

timingvars == <<stim_label_allruns, run_id, time_points_mask, time_secs>>

maskvars == <<epi_data, mask>>

zvars == <<scaler, maskedData_zscore, zscore_history, masked_loaded, voxel_mean, voxel_std>>

cvvars == <<run_ids, bold_normalized, other_normalized, pca, bold_pca_normalized,
            models_pca, ps, clf_pipe, other_clf_pipe, printed>>

blockvars == <<bold_data_raw, labels_raw, run_ids_raw, bold_data>>

simvars == <<activity, cond_labels, face_labels, scene_labels, baseline_labels,
             face_activity, scene_activity, baseline_activity, raised>>

datavars == <<dpc, labels, timingvars, maskvars, maskedData, zvars, cvvars,
              blockvars, simvars>>

vars == <<nbvars, datavars>>

\* The value of a variable the section being run does not use.
Unused == <<>>

IdleNotebook ==
    /\ nb = 0 /\ pc = 1 /\ env = Unused /\ unbound = {} /\ iter = -1
    /\ done_iters = 0 /\ warnoptions = FALSE

IdleTiming ==
    /\ stim_label_allruns = Unused /\ run_id = 0 /\ time_points_mask = Unused
    /\ time_secs = Unused

IdleMask == epi_data = Unused /\ mask = Unused

IdleZ ==
    /\ scaler = Unused /\ maskedData_zscore = Unused /\ zscore_history = Unused
    /\ masked_loaded = Unused /\ voxel_mean = Unused /\ voxel_std = Unused

IdleCV ==
    /\ run_ids = Unused /\ bold_normalized = Unused /\ other_normalized = Unused
    /\ pca = Unused /\ bold_pca_normalized = Unused /\ models_pca = Unused
    /\ ps = Unused /\ clf_pipe = Unused /\ other_clf_pipe = Unused /\ printed = Unused

IdleBlock ==
    /\ bold_data_raw = Unused /\ labels_raw = Unused /\ run_ids_raw = Unused
    /\ bold_data = Unused

IdleSim ==
    /\ activity = Unused /\ cond_labels = Unused
    /\ face_labels = Unused /\ scene_labels = Unused /\ baseline_labels = Unused
    /\ face_activity = Unused /\ scene_activity = Unused /\ baseline_activity = Unused
    /\ raised = ""

(***************************************************************************)
(* Bounds.                                                                 *)
(***************************************************************************)
MaxConditions == 3      \* largest len(vdc_label_dict) explored
MaxRuns == 3            \* largest number of distinct run ids in the label file

(***************************************************************************)
(* Statements.  w: names bound; r: names read; f: the calls on the data    *)
(* path of the value; m: names of objects the statement updates in place;  *)
(* n: an integer literal; cp: the name whose integer value is carried over.*)
(***************************************************************************)
Stmt(k, w, f, r) ==
    [k |-> k, w |-> w, f |-> f, r |-> r, m |-> {}, n |-> 0, cp |-> "",
     body |-> <<>>, orelse |-> <<>>]

Imp(w) == Stmt("import", w, {}, {})
Set(w, f, r) == Stmt("assign", w, f, r)
Do(f, r) == Stmt("assign", {}, f, r)
Lit(w, n) == [Stmt("assign", {w}, {}, {}) EXCEPT !.n = n]
Carry(w, f, r, x) == [Stmt("assign", w, f, r) EXCEPT !.cp = x]
Upd(x, f, r) == [Stmt("assign", {}, f, r \cup {x}) EXCEPT !.m = {x}]
SetUpd(w, x, f, r) == [Stmt("assign", w, f, r \cup {x}) EXCEPT !.m = {x}]
Utils(w) == Stmt("utils", w, {}, {})
Load(w, f, r) == Stmt("load", w, f, r)
For(w, r, x) == [Stmt("for", w, {}, r) EXCEPT !.cp = x]
EndFor == Stmt("endfor", {}, {}, {})
If(test, r, body, orelse) ==
    [Stmt("if", {}, {}, r) EXCEPT !.cp = test, !.body = body, !.orelse = orelse]


(***************************************************************************)
(* Notebook 02, cell by cell.                                              *)
(***************************************************************************)
NB02_Imports ==
    << Imp({"warnings"}), Imp({"sys"}),
       If("warnoptions", {"sys"}, << Do({"warnings.simplefilter"}, {"warnings"}) >>, <<>>),
       Imp({"np"}), Imp({"nib"}), Imp({"NiftiMasker", "MultiNiftiMasker"}),
       Imp({"stats"}), Imp({"preprocessing"}), Imp({"plt"}), Imp({"sns"}), Imp({"os"}),
       Do({"sns.set"}, {"sns"}), Do({"sns.set"}, {"sns"}) >>

NB02_UtilsImport ==
    << Imp({"load_vdc_stim_labels", "load_vdc_mask", "load_vdc_epi_data"}),
       Utils({"vdc_data_dir", "vdc_all_ROIs", "vdc_label_dict", "vdc_n_runs",
              "nb2_simulated_data"}),
       Do({"print"}, {"vdc_data_dir"}), Do({"print"}, {"vdc_all_ROIs"}),
       Do({"print"}, {"vdc_label_dict"}), Do({"print"}, {"vdc_n_runs"}) >>

NB02_LoadTiming ==
    << Set({"sub"}, {}, {}),
       Load({"stim_label_allruns"}, {"load_vdc_stim_labels"},
            {"load_vdc_stim_labels", "sub"}),
       Do({"print"}, {"np", "stim_label_allruns"}) >>

NB02_RunSelection ==
    << Lit("run_id", 1),
       Set({"time_points_mask"}, {}, {"stim_label_allruns", "run_id"}),
       Set({"labels"}, {}, {"stim_label_allruns", "time_points_mask"}),
       Set({"time_secs"}, {}, {"stim_label_allruns", "time_points_mask"}),
       Do({"print"}, {"labels"}), Do({"print"}, {"time_secs"}) >>

NB02_Plot ==
    << Do({"plt.figure"}, {"plt"}), Do({"plt.plot"}, {"plt", "time_secs", "labels"}),
       Do({"plt.title"}, {"plt"}), Do({"plt.xlabel"}, {"plt"}) >>

NB02_PlotConditions ==
    << Carry({"n_conditions"}, {"len"}, {"vdc_label_dict"}, "vdc_label_dict"),
       Set({"cur_pals"}, {"sns.color_palette"}, {"sns", "n_conditions"}),
       Set({"f", "ax"}, {"plt.subplots"}, {"plt"}),
       For({"i_cond"}, {"n_conditions"}, "n_conditions"),
           Set({"label"}, {}, {"vdc_label_dict", "i_cond"}),
           Set({"temp_mask"}, {}, {"label", "labels"}),
           Do({"ax.scatter"},
              {"ax", "time_secs", "temp_mask", "labels", "cur_pals", "i_cond"}),
       EndFor,
       Do({"ax.legend"}, {"ax", "vdc_label_dict"}),
       Do({"ax.plot"}, {"ax", "time_secs", "labels"}),
       Do({"ax.set_title"}, {"ax", "run_id"}),
       Do({"ax.set_yticks"}, {"ax", "vdc_label_dict"}),
       Do({"ax.set_yticklabels"}, {"ax", "vdc_label_dict"}),
       Do({"ax.set_xlabel"}, {"ax"}) >>

NB02_PrintROIs == << Do({"print"}, {"vdc_all_ROIs"}) >>

NB02_Masking ==
    << Set({"ROI_name"}, {}, {}),
       Set({"epi_data"}, {"load_vdc_epi_data"}, {"load_vdc_epi_data", "sub", "run_id"}),
       Set({"mask"}, {"load_vdc_mask"}, {"load_vdc_mask", "ROI_name", "sub"}),
       Set({"nifti_masker"}, {"NiftiMasker"}, {"NiftiMasker", "mask"}),
       Set({"maskedData"}, {"NiftiMasker.fit_transform"}, {"nifti_masker", "epi_data"}),
       Do({"print"}, {"epi_data"}), Do({"print"}, {"maskedData"}),
       Do({"print"}, {"ROI_name"}) >>

NB02_PlotVoxel ==
    << Lit("voxel_id", 100),
       Set({"f", "ax"}, {"plt.subplots"}, {"plt"}),
       Do({"ax.plot"}, {"ax", "maskedData", "voxel_id"}),
       Do({"ax.set_title"}, {"ax", "voxel_id"}),
       Do({"ax.set_xlabel"}, {"ax"}), Do({"ax.set_ylabel"}, {"ax"}) >>

NB02_ZScore ==
    << Set({"scaler"}, {"StandardScaler.fit"}, {"preprocessing", "maskedData"}),
       Set({"maskedData_zscore"}, {"StandardScaler.transform"}, {"scaler", "maskedData"}),
       Set({"scaler"}, {"StandardScaler"}, {"preprocessing"}),
       Upd("scaler", {"StandardScaler.fit"}, {"maskedData"}),
       Set({"maskedData_zscore"}, {"StandardScaler.transform"}, {"scaler", "maskedData"}),
       Set({"maskedData_zscore"}, {"StandardScaler.fit_transform"},
           {"preprocessing", "maskedData"}) >>

NB02_CheckZScore ==
    << Set({"voxel_mean"}, {"np.mean"}, {"np", "maskedData_zscore"}),
       Set({"voxel_std"}, {"np.std"}, {"np", "maskedData_zscore"}),
       Do({"print"}, {"voxel_mean"}), Do({"print"}, {"voxel_mean"}),
       Do({"print"}, {"voxel_std"}) >>

NB02_Exercise7 == << Set({"maskedData_normalized"}, {"None"}, {}) >>

NB02_PlotNormalized ==
    << If("is_not_None", {"maskedData_normalized"},
          << Set({"f", "axes"}, {"plt.subplots"}, {"plt"}),
             Lit("v", 0), Lit("t", 0),
             Do({"axes.plot"}, {"axes", "maskedData_normalized", "v"}),
             Do({"axes.set_title"}, {"axes", "v"}),
             Do({"axes.set_xlabel"}, {"axes"}),
             Do({"axes.plot"}, {"axes", "maskedData_normalized", "t"}),
             Do({"axes.set_title"}, {"axes", "t"}),
             Do({"axes.set_xlabel"}, {"axes"}),
             Do({"f.tight_layout"}, {"f"}) >>,
          << Do({"print"}, {}) >>) >>

NB02_Simulated ==
    << Set({"activity"}, {"np.load"}, {"np", "os", "nb2_simulated_data"}),
       Set({"cond_labels"}, {"np.load"}, {"np", "os", "nb2_simulated_data"}),
       Set({"run_labels"}, {"np.load"}, {"np", "os", "nb2_simulated_data"}),
       Lit("time_shift", 2),
       Set({"face_labels"}, {"np.where"}, {"np", "cond_labels", "time_shift"}),
       Set({"scene_labels"}, {"np.where"}, {"np", "cond_labels", "time_shift"}),
       Set({"baseline_labels"}, {"np.where"}, {"np", "cond_labels", "time_shift"}),
       Set({"baseline_labels"}, {}, {"baseline_labels", "activity"}),
       Set({"face_activity"}, {}, {"activity", "face_labels"}),
       Set({"scene_activity"}, {}, {"activity", "scene_labels"}),
       Set({"baseline_activity"}, {}, {"activity", "baseline_labels"}),
       Set({"face_diff"}, {"np.mean"}, {"face_activity", "np", "baseline_activity"}),
       Set({"scene_diff"}, {"np.mean"}, {"scene_activity", "np", "baseline_activity"}),
       Do({"plt.figure"}, {"plt"}),
       Do({"plt.errorbar"}, {"plt", "np", "face_diff", "scene_diff"}),
       Do({"plt.title"}, {"plt"}), Do({"plt.xticks"}, {"plt"}),
       Do({"plt.ylabel"}, {"plt"}), Do({"plt.xlabel"}, {"plt"}),
       Do({"plt.xlim"}, {"plt"}) >>

NB02 ==
    NB02_Imports \o NB02_UtilsImport \o NB02_LoadTiming \o NB02_RunSelection
    \o NB02_Plot \o NB02_PlotConditions \o NB02_PrintROIs \o NB02_Masking
    \o NB02_PlotVoxel \o NB02_ZScore \o NB02_CheckZScore \o NB02_Exercise7
    \o NB02_PlotNormalized \o NB02_Simulated

(***************************************************************************)
(* Notebook 04, cell by cell.                                              *)
(***************************************************************************)
NB04_Imports ==
    << Imp({"warnings"}), Imp({"sys"}),
       If("warnoptions", {"sys"}, << Do({"warnings.simplefilter"}, {"warnings"}) >>, <<>>),
       Imp({"np"}), Imp({"time"}), Imp({"pd"}), Imp({"plt"}), Imp({"sns"}),
       Imp({"cross_val_score", "cross_validate", "PredefinedSplit"}),
       Imp({"SVC"}), Imp({"PCA"}), Imp({"SelectKBest", "RFECV", "f_classif"}),
       Imp({"Pipeline"}),
       Do({"sns.set"}, {"sns"}), Do({"sns.set"}, {"sns"}) >>

NB04_UtilsImport ==
    << Imp({"load_labels", "load_data", "blockwise_sampling", "label2TR",
            "shift_timing", "reshape_data"}),
       Imp({"normalize", "decode"}),
       Utils({"vdc_data_dir", "vdc_all_ROIs", "vdc_label_dict", "vdc_n_runs",
              "vdc_hrf_lag", "vdc_TR", "vdc_TRs_run"}),
       Do({"print"}, {}), Do({"print"}, {"vdc_data_dir"}),
       Do({"print"}, {"vdc_all_ROIs"}), Do({"print"}, {"vdc_label_dict"}),
       Do({"print"}, {"vdc_n_runs"}), Do({"print"}, {"vdc_TR"}),
       Do({"print"}, {"vdc_hrf_lag"}), Do({"print"}, {"vdc_TRs_run"}) >>

NB04_Subject == << Lit("sub_id", 1), Set({"mask_name"}, {}, {}) >>

\* The loading cell with reshape_data given the labels before the shift.
NB04_LoadData_Unshifted ==
    << Set({"sub"}, {}, {"sub_id"}),
       Set({"shift_size"}, {}, {"vdc_hrf_lag", "vdc_TR"}),
       Load({"stim_label_allruns"}, {"load_labels"}, {"load_labels", "vdc_data_dir", "sub"}),
       Carry({"run_ids_raw"}, {}, {"stim_label_allruns"}, "stim_label_allruns"),
       Set({"epi_mask_data_all"}, {"load_data"},
           {"load_data", "vdc_data_dir", "sub", "mask_name"}),
       Do({"print"}, {"sub", "epi_mask_data_all"}),
       Set({"TRs_run"}, {}, {"epi_mask_data_all", "vdc_n_runs"}),
       Set({"stim_label_TR"}, {"label2TR"},
           {"label2TR", "stim_label_allruns", "vdc_n_runs", "vdc_TR", "TRs_run"}),
       Set({"stim_label_TR_shifted"}, {"shift_timing"},
           {"shift_timing", "stim_label_TR", "shift_size"}),
       Set({"bold_data_raw", "labels_raw"}, {"reshape_data"},
           {"reshape_data", "stim_label_TR", "epi_mask_data_all"}),
       Set({"bold_normalized_raw"}, {"normalize"},
           {"normalize", "bold_data_raw", "run_ids_raw"}),
       Carry({"bold_data", "labels", "run_ids"}, {"blockwise_sampling"},
             {"blockwise_sampling", "bold_data_raw", "labels_raw", "run_ids_raw"},
             "run_ids_raw"),
       Set({"bold_normalized"}, {"normalize"}, {"normalize", "bold_data", "run_ids"}) >>

\* The loading cell with the block averaging applied to the normalized trials.
NB04_LoadData_BlockwiseOfNormalized ==
    << Set({"sub"}, {}, {"sub_id"}),
       Set({"shift_size"}, {}, {"vdc_hrf_lag", "vdc_TR"}),
       Load({"stim_label_allruns"}, {"load_labels"}, {"load_labels", "vdc_data_dir", "sub"}),
       Carry({"run_ids_raw"}, {}, {"stim_label_allruns"}, "stim_label_allruns"),
       Set({"epi_mask_data_all"}, {"load_data"},
           {"load_data", "vdc_data_dir", "sub", "mask_name"}),
       Do({"print"}, {"sub", "epi_mask_data_all"}),
       Set({"TRs_run"}, {}, {"epi_mask_data_all", "vdc_n_runs"}),
       Set({"stim_label_TR"}, {"label2TR"},
           {"label2TR", "stim_label_allruns", "vdc_n_runs", "vdc_TR", "TRs_run"}),
       Set({"stim_label_TR_shifted"}, {"shift_timing"},
           {"shift_timing", "stim_label_TR", "shift_size"}),
       Set({"bold_data_raw", "labels_raw"}, {"reshape_data"},
           {"reshape_data", "stim_label_TR_shifted", "epi_mask_data_all"}),
       Set({"bold_normalized_raw"}, {"normalize"},
           {"normalize", "bold_data_raw", "run_ids_raw"}),
       Carry({"bold_data", "labels", "run_ids"}, {"blockwise_sampling"},
             {"blockwise_sampling", "bold_normalized_raw", "labels_raw", "run_ids_raw"},
             "run_ids_raw"),
       Set({"bold_normalized"}, {"normalize"}, {"normalize", "bold_data", "run_ids"}) >>

NB04_LoadData ==
    << Set({"sub"}, {}, {"sub_id"}),
       Set({"shift_size"}, {}, {"vdc_hrf_lag", "vdc_TR"}),
       Load({"stim_label_allruns"}, {"load_labels"}, {"load_labels", "vdc_data_dir", "sub"}),
       Carry({"run_ids_raw"}, {}, {"stim_label_allruns"}, "stim_label_allruns"),
       Set({"epi_mask_data_all"}, {"load_data"},
           {"load_data", "vdc_data_dir", "sub", "mask_name"}),
       Do({"print"}, {"sub", "epi_mask_data_all"}),
       Set({"TRs_run"}, {}, {"epi_mask_data_all", "vdc_n_runs"}),
       Set({"stim_label_TR"}, {"label2TR"},
           {"label2TR", "stim_label_allruns", "vdc_n_runs", "vdc_TR", "TRs_run"}),
       Set({"stim_label_TR_shifted"}, {"shift_timing"},
           {"shift_timing", "stim_label_TR", "shift_size"}),
       Set({"bold_data_raw", "labels_raw"}, {"reshape_data"},
           {"reshape_data", "stim_label_TR_shifted", "epi_mask_data_all"}),
       Set({"bold_normalized_raw"}, {"normalize"},
           {"normalize", "bold_data_raw", "run_ids_raw"}),
       Carry({"bold_data", "labels", "run_ids"}, {"blockwise_sampling"},
             {"blockwise_sampling", "bold_data_raw", "labels_raw", "run_ids_raw"},
             "run_ids_raw"),
       Set({"bold_normalized"}, {"normalize"}, {"normalize", "bold_data", "run_ids"}) >>

\* The first PCA as Exercise 6 asks for it: on the normalized data.
NB04_PCA_Normalized ==
    << Set({"pca"}, {"PCA"}, {"PCA"}),
       SetUpd({"bold_pca"}, "pca", {"PCA.fit_transform"}, {"bold_normalized"}),
       Do({"print"}, {"bold_data"}), Do({"print"}, {"bold_pca"}) >>

NB04_PCA ==
    << Set({"pca"}, {"PCA"}, {"PCA"}),
       SetUpd({"bold_pca"}, "pca", {"PCA.fit_transform"}, {"bold_data"}),
       Do({"print"}, {"bold_data"}), Do({"print"}, {"bold_pca"}) >>

NB04_PlotHistograms ==
    << Lit("n_bins", 75), Lit("n_plots", 4),
       Set({"components_to_plot"}, {}, {}),
       Set({"f", "axes"}, {"plt.subplots"}, {"plt", "n_plots"}),
       Set({"st"}, {"f.suptitle"}, {"f"}),
       For({"i"}, {"n_plots"}, "n_plots"),
           Do({"axes.hist"}, {"axes", "i", "bold_pca", "components_to_plot", "n_bins"}),
           Do({"axes.set_title"}, {"axes", "i", "components_to_plot"}),
           Do({"axes.set_ylabel"}, {"axes", "i"}),
           Do({"axes.set_xlabel"}, {"axes", "i"}),
           Do({"axes.set_xticks"}, {"axes", "i"}),
           Do({"axes.set_yticks"}, {"axes", "i"}),
       EndFor,
       Do({"f.tight_layout"}, {"f"}), Do({"st.set_y"}, {"st"}),
       Do({"f.subplots_adjust"}, {"f"}) >>

NB04_PlotScatter ==
    << Set({"alpha_val"}, {}, {}),
       Set({"cur_pals"}, {"sns.color_palette"}, {"sns", "vdc_n_runs"}),
       Lit("n_plots", 3),
       Set({"f", "axes"}, {"plt.subplots"}, {"plt", "n_plots"}),
       Set({"st"}, {"f.suptitle"}, {"f"}),
       Do({"axes.scatter"}, {"axes", "bold_pca", "alpha_val"}),
       Do({"axes.scatter"}, {"axes", "bold_pca", "alpha_val"}),
       Do({"axes.scatter"}, {"axes", "bold_pca", "alpha_val"}),
       Do({"axes.set_title"}, {"axes"}), Do({"axes.set_title"}, {"axes"}),
       Do({"axes.set_title"}, {"axes"}),
       For({"i"}, {"n_plots"}, "n_plots"),
           Do({"axes.axis"}, {"axes", "i"}),
           Do({"axes.set_xticks"}, {"axes", "i"}),
           Do({"axes.set_yticks"}, {"axes", "i"}),
       EndFor,
       Do({"f.tight_layout"}, {"f"}), Do({"st.set_y"}, {"st"}),
       Do({"f.subplots_adjust"}, {"f"}) >>

\* The baseline classification cell left out of the run.
NB04_Baseline_Skipped == <<>>

NB04_Baseline ==
    << Do({"print"}, {}), Do({"print"}, {"bold_normalized"}),
       Set({"svc"}, {"SVC"}, {"SVC"}),
       Set({"start"}, {"time"}, {"time"}),
       Set({"models", "scores"}, {"decode"},
           {"decode", "bold_normalized", "labels", "run_ids", "svc"}),
       Set({"end"}, {"time"}, {"time"}),
       Do({"print"}, {"scores"}), Do({"print"}, {"end", "start"}) >>

NB04_PCADecode ==
    << Set({"pca"}, {"PCA"}, {"PCA"}),
       SetUpd({"bold_pca_normalized"}, "pca", {"PCA.fit_transform"}, {"bold_normalized"}),
       Do({"print"}, {"bold_pca_normalized"}), Do({"print"}, {"bold_pca_normalized"}),
       Set({"start"}, {"time"}, {"time"}),
       Set({"models_pca", "scores_pca"}, {"decode"},
           {"decode", "bold_pca_normalized", "labels", "run_ids", "svc"}),
       Set({"end"}, {"time"}, {"time"}),
       Do({"print"}, {"scores_pca"}), Do({"print"}, {"end", "start"}) >>

NB04_Pipeline ==
    << Set({"pipe"}, {"Pipeline"}, {"Pipeline", "PCA", "SVC"}),
       Carry({"ps"}, {"PredefinedSplit"}, {"PredefinedSplit", "run_ids"}, "run_ids"),
       Set({"clf_pipe"}, {"cross_validate"},
           {"cross_validate", "pipe", "bold_normalized", "labels", "ps"}),
       Do({"print"}, {"clf_pipe"}), Do({"print"}, {"np", "clf_pipe"}) >>

NB04_PrintSplit ==
    << For({"cv_idx", "train_index", "test_index"}, {"ps", "bold_normalized", "labels"},
           "ps"),
           Do({"print"}, {"cv_idx"}), Do({"print"}, {}),
           Do({"print"}, {"train_index"}), Do({"print"}, {}),
           Do({"print"}, {"test_index"}),
       EndFor,
       Do({"print"}, {"clf_pipe"}), Do({"print"}, {"np", "clf_pipe"}) >>

NB04 ==
    NB04_Imports \o NB04_UtilsImport \o NB04_Subject \o NB04_LoadData \o NB04_PCA
    \o NB04_PlotHistograms \o NB04_PlotScatter \o NB04_Baseline \o NB04_PCADecode
    \o NB04_Pipeline \o NB04_PrintSplit

Program(n) == IF n = 2 THEN NB02 ELSE NB04

(***************************************************************************)
(* What the helpers of utils.py write to besides their result: nothing,    *)
(* they are stateless transforms of their arguments.                       *)
(***************************************************************************)
HelperArgsWritten(fn) == {}

(***************************************************************************)
(* The kernel: one statement at a time, top to bottom.                     *)
(***************************************************************************)
Bound == DOMAIN env

Finished == pc = Len(Program(nb)) + 1

Running == unbound = {} /\ pc <= Len(Program(nb))

Cur == Program(nb)[pc]

\* The data path of the value a statement computes.
Path(e, s) == s.f \cup UNION {e[x].p : x \in s.r \cap DOMAIN e}

\* The objects a statement updates in place.
Written(s) == s.m \cup UNION {HelperArgsWritten(fn) : fn \in s.f}

\* The integer a statement binds: a literal, or the value carried from s.cp.
IntOf(e, s) == IF s.cp # "" /\ s.cp \in DOMAIN e THEN e[s.cp].n ELSE s.n

Bind(e, s, n) ==
    [x \in DOMAIN e \cup s.w |->
        IF x \in s.w THEN [p |-> Path(e, s), n |-> n]
        ELSE IF x \in Written(s) THEN [p |-> e[x].p \cup Path(e, s), n |-> e[x].n]
        ELSE e[x]]

\* A statement either raises NameError for the unbound names it reads, or binds.
Exec(e, s, n) ==
    IF s.r \subseteq DOMAIN e
    THEN [env |-> Bind(e, s, n), unbound |-> {}]
    ELSE [env |-> e, unbound |-> s.r \ DOMAIN e]

RECURSIVE RunSeq(_, _)
RunSeq(e, ss) ==
    IF ss = <<>> THEN [env |-> e, unbound |-> {}]
    ELSE LET r == Exec(e, Head(ss), IntOf(e, Head(ss)))
         IN IF r.unbound # {} THEN r ELSE RunSeq(r.env, Tail(ss))

\* The condition of an if statement.
Test(s) ==
    IF s.cp = "warnoptions" THEN ~warnoptions
    ELSE \A x \in s.r : "None" \notin env[x].p

\* The for statement a loop body belongs to, and the statement after the body.
LoopHead(i) ==
    CHOOSE j \in 1..i : Program(nb)[j].k = "for"
                        /\ \A l \in (j+1)..i : Program(nb)[l].k # "for"

LoopEnd(i) ==
    CHOOSE j \in i..Len(Program(nb)) :
        Program(nb)[j].k = "endfor" /\ \A l \in i..(j-1) : Program(nb)[l].k # "endfor"

\* A loop that evaluates its bound anew at every iteration and never counts down.
IterationsLeft_Reevaluated == env[Cur.cp].n

\* range(n) and ps.split(...) are evaluated once, when the loop starts.
IterationsLeft == IF iter = -1 THEN env[Cur.cp].n ELSE iter

Step(r) ==
    /\ env' = r.env
    /\ unbound' = r.unbound
    /\ pc' = IF r.unbound = {} THEN pc + 1 ELSE pc

ExecImport ==
    /\ Running /\ Cur.k = "import"
    /\ Step(Exec(env, Cur, 0))
    /\ UNCHANGED <<datavars, nb, iter, done_iters, warnoptions>>

ExecUtilsImport ==
    /\ Running /\ Cur.k = "utils"
    /\ \E n \in 0..MaxConditions :
          Step([env |-> [Bind(env, Cur, 0) EXCEPT !["vdc_label_dict"].n = n],
                unbound |-> {}])
    /\ UNCHANGED <<datavars, nb, iter, done_iters, warnoptions>>

ExecLoad ==
    /\ Running /\ Cur.k = "load"
    /\ \E n \in 1..MaxRuns : Step(Exec(env, Cur, n))
    /\ UNCHANGED <<datavars, nb, iter, done_iters, warnoptions>>

ExecAssign ==
    /\ Running /\ Cur.k = "assign"
    /\ Step(Exec(env, Cur, IntOf(env, Cur)))
    /\ UNCHANGED <<datavars, nb, iter, done_iters, warnoptions>>

ExecIf ==
    /\ Running /\ Cur.k = "if"
    /\ IF Cur.r \subseteq Bound
       THEN Step(RunSeq(env, IF Test(Cur) THEN Cur.body ELSE Cur.orelse))
       ELSE Step(Exec(env, Cur, 0))
    /\ UNCHANGED <<datavars, nb, iter, done_iters, warnoptions>>

ForNext ==
    /\ Running /\ Cur.k = "for"
    /\ IF Cur.r \subseteq Bound
       THEN /\ IterationsLeft > 0
            /\ iter' = IterationsLeft - 1
            /\ done_iters' = (IF iter = -1 THEN 0 ELSE done_iters) + 1
            /\ Step(Exec(env, Cur, 0))
       ELSE /\ Step(Exec(env, Cur, 0))
            /\ UNCHANGED <<iter, done_iters>>
    /\ UNCHANGED <<datavars, nb, warnoptions>>

ForExit ==
    /\ Running /\ Cur.k = "for"
    /\ Cur.r \subseteq Bound
    /\ IterationsLeft = 0
    /\ iter' = -1
    /\ done_iters' = IF iter = -1 THEN 0 ELSE done_iters
    /\ pc' = LoopEnd(pc) + 1
    /\ UNCHANGED <<datavars, nb, env, unbound, warnoptions>>

EndOfBody ==
    /\ Running /\ Cur.k = "endfor"
    /\ pc' = LoopHead(pc)
    /\ UNCHANGED <<datavars, nb, env, unbound, iter, done_iters, warnoptions>>

Init ==
    /\ nb \in {2, 4}
    /\ pc = 1
    /\ env = [x \in {} |-> [p |-> {}, n |-> 0]]
    /\ unbound = {}
    /\ iter = -1
    /\ done_iters = 0
    /\ warnoptions \in BOOLEAN
    /\ dpc = "notebook" /\ labels = Unused /\ maskedData = Unused
    /\ IdleTiming /\ IdleMask /\ IdleZ /\ IdleCV /\ IdleBlock /\ IdleSim

Next ==
    \/ ExecImport
    \/ ExecUtilsImport
    \/ ExecLoad
    \/ ExecAssign
    \/ ExecIf
    \/ ForNext
    \/ ForExit
    \/ EndOfBody

Spec == Init /\ [][Next]_vars

\* The kernel runs the next statement whenever there is one.
FairSpec == Spec /\ WF_vars(Next)

(***************************************************************************)
(* Part I, properties of a top-to-bottom run.                              *)
(***************************************************************************)

\* C9: run top to bottom, no statement of notebook 02 or 04 reads a name that
\* neither an import nor an earlier statement has bound: no NameError is raised
\* and the names the next statement reads are all bound.
C9_EveryReadIsBound ==
    /\ unbound = {}
    /\ pc <= Len(Program(nb)) => Cur.r \subseteq Bound

\* C9 witness: notebook 04 has run to its end, the last cells having read names
\* bound by earlier cells.
C9_Witness ==
    /\ nb = 4 /\ Finished
    /\ {"svc", "ps", "clf_pipe", "bold_normalized"} \subseteq Bound

\* The number of iterations a running loop was started with.
LoopBound == env[Program(nb)[LoopHead(pc)].cp].n

LoopCountFixed == iter # -1 => done_iters + iter = LoopBound

\* C10: every loop runs the number of iterations that was fixed when it started
\* (iterations started plus iterations left stay equal to that number), and the
\* run of the notebook eventually finishes.
C10_LoopsFixedAndRunFinishes == []LoopCountFixed /\ <>Finished

\* C10 witness: the run has finished and its last loop ran more than once.
C10_Witness == Finished /\ done_iters > 1 /\ iter = -1

\* The statement after the first PCA cell of notebook 04.
AfterFirstPCA ==
    Len(NB04_Imports \o NB04_UtilsImport \o NB04_Subject \o NB04_LoadData \o NB04_PCA) + 1

\* C4: the first PCA of notebook 04 is fitted on data with no call of normalize
\* on its data path (bold_data comes from bold_data_raw through
\* blockwise_sampling), and up to that PCA the only names whose value a call of
\* normalize has produced are bold_normalized_raw and bold_normalized.
C4_FirstPCAUnnormalized ==
    nb = 4 =>
      /\ "bold_pca" \in Bound =>
            /\ "normalize" \notin env["bold_pca"].p
            /\ "normalize" \notin env["bold_data"].p
            /\ {"PCA.fit_transform", "blockwise_sampling", "reshape_data"}
                 \subseteq env["bold_pca"].p
      /\ pc <= AfterFirstPCA =>
            \A x \in Bound : "normalize" \in env[x].p
                               => x \in {"bold_normalized_raw", "bold_normalized"}

\* C4 witness: the first PCA has run, after both calls of normalize.
C4_Witness ==
    /\ nb = 4 /\ pc = AfterFirstPCA
    /\ "bold_pca" \in Bound
    /\ "normalize" \in env["bold_normalized"].p
    /\ "normalize" \in env["bold_normalized_raw"].p

\* The statement after the loading cell of notebook 04.
AfterLoadData ==
    Len(NB04_Imports \o NB04_UtilsImport \o NB04_Subject \o NB04_LoadData) + 1

\* The calls whose result a name holds when the loading cell binds it.
PathAsBound(x) ==
    CASE x = "stim_label_TR_shifted" -> {"shift_timing", "label2TR", "load_labels", "load_data"}
      [] x = "epi_mask_data_all" -> {"load_data"}
      [] x = "bold_data_raw" -> {"reshape_data", "shift_timing", "label2TR", "load_labels",
                                 "load_data"}
      [] x = "labels_raw" -> {"reshape_data", "shift_timing", "label2TR", "load_labels",
                              "load_data"}
      [] x = "run_ids_raw" -> {"load_labels"}

HelperArguments ==
    {"stim_label_TR_shifted", "epi_mask_data_all", "bold_data_raw", "labels_raw",
     "run_ids_raw"}

\* C11: the value of normalize(bold_data, run_ids) does not depend on the
\* earlier call normalize(bold_data_raw, run_ids_raw): no call of normalize is
\* on the data path of bold_data or run_ids; and the argument arrays of
\* reshape_data, normalize and blockwise_sampling keep, for the whole run, the
\* value they were bound to: nothing is added to their data path.
C11_HelpersStateless ==
    nb = 4 =>
      /\ \A x \in {"bold_data", "run_ids"} \cap Bound : "normalize" \notin env[x].p
      /\ "bold_normalized" \in Bound =>
            env["bold_normalized"].p =
               {"normalize"} \cup env["bold_data"].p \cup env["run_ids"].p
      /\ \A x \in HelperArguments \cap Bound : env[x].p = PathAsBound(x)

\* The loading cell has run: both calls of normalize and the block averaging.
C11_Witness ==
    /\ nb = 4 /\ pc = AfterLoadData
    /\ HelperArguments \subseteq Bound
    /\ "normalize" \in env["bold_normalized_raw"].p
    /\ "blockwise_sampling" \in env["bold_normalized"].p

\* The next statement calls fn, with every name it reads bound.
Calling(fn) == nb = 4 /\ Running /\ fn \in Cur.f /\ Cur.r \subseteq Bound

\* The arguments of the call the next statement makes.
Arguments == Cur.r \ Cur.f

\* reshape_data is given the shifted labels: stim_label_TR_shifted, the result
\* of shift_timing on the result of label2TR, and no labels that have not been
\* through shift_timing.
ShiftBeforeReshape ==
    Calling("reshape_data") =>
       /\ "stim_label_TR_shifted" \in Arguments
       /\ "stim_label_TR" \notin Arguments
       /\ {"shift_timing", "label2TR"} \subseteq env["stim_label_TR_shifted"].p
       /\ "shift_timing" \notin env["stim_label_TR"].p
       /\ \A x \in Arguments : "label2TR" \in env[x].p => "shift_timing" \in env[x].p

RunIdNames == {"run_ids_raw", "run_ids"}

\* C14 as stated: reshape_data is given the shifted labels and never the
\* unshifted ones, and every argument of normalize and of blockwise_sampling
\* is, or is computed from, an output of reshape_data.
C14_OnlyOutputsOfReshape ==
    /\ ShiftBeforeReshape
    /\ (Calling("normalize") \/ Calling("blockwise_sampling")) =>
          \A x \in Arguments : "reshape_data" \in env[x].p

\* C14, amended: reshape_data is given the shifted labels and never the
\* unshifted ones; the BOLD data and the labels given to normalize and to
\* blockwise_sampling are, or are computed from, outputs of reshape_data; the
\* run ids given to them are run_ids_raw, which comes from the label file and
\* not from reshape_data, or run_ids, computed from it by blockwise_sampling.
C14_ShiftBeforeSelection ==
    /\ ShiftBeforeReshape
    /\ (Calling("normalize") \/ Calling("blockwise_sampling")) =>
          /\ \A x \in Arguments \ RunIdNames :
                {"reshape_data", "shift_timing"} \subseteq env[x].p
          /\ \A x \in Arguments \cap RunIdNames : "load_labels" \in env[x].p
          /\ Arguments \cap RunIdNames # {}
          /\ "run_ids_raw" \in Bound =>
                env["run_ids_raw"].p \cap {"reshape_data", "shift_timing"} = {}

\* The loading cell has run: the labels were shifted, reshape_data selected the
\* time points, and both normalize calls and blockwise_sampling consumed them.
C14_Witness ==
    /\ nb = 4 /\ pc = AfterLoadData
    /\ {"shift_timing", "reshape_data", "normalize", "blockwise_sampling"}
          \subseteq env["bold_normalized"].p
    /\ "reshape_data" \notin env["run_ids_raw"].p

(***************************************************************************)
(* Part II.  Notebook 02: the timing file and the selection of a run.      *)
(*                                                                         *)
(* stim_label_allruns is a 2-d array, modelled as the sequence of its rows;*)
(* numpy's row i is element i + 1.  Row 0 holds the stimulus labels, row 2 *)
(* the time in seconds from the start of the run, row 5 the run.           *)
(***************************************************************************)
MaxTrials == 3          \* largest number of columns of the timing file explored

vdc_n_runs == 3

vdc_label_keys == 1..3

Row(a, i) == a[i + 1]

RECURSIVE SumSeq(_)
SumSeq(q) == IF q = <<>> THEN 0 ELSE Head(q) + SumSeq(Tail(q))

\* The timing files: any labels and runs per trial; the time of a trial counts
\* the earlier trials of its run.
TimingFiles ==
    UNION {
      { << lab,
           [j \in 1..n |-> 0],
           [j \in 1..n |-> Cardinality({i \in 1..(j-1) : run[i] = run[j]})],
           [j \in 1..n |-> 0],
           [j \in 1..n |-> 0],
           run >> :
        lab \in [1..n -> vdc_label_keys], run \in [1..n -> 1..vdc_n_runs] }
      : n \in 1..MaxTrials }

\* numpy: a == v, elementwise.
EqualsMask(a, v) == [j \in 1..Len(a) |-> a[j] = v]

\* numpy: a[m] for a boolean array m, the entries of a where m holds, in order.
RECURSIVE BoolIndex(_, _)
BoolIndex(a, m) ==
    IF a = <<>> THEN <<>>
    ELSE (IF Head(m) THEN <<Head(a)>> ELSE <<>>) \o BoolIndex(Tail(a), Tail(m))

\* The run identifier compared against the label row instead of row 5.
TimePointsMask_LabelRow(stim, r) == EqualsMask(Row(stim, 0), r)

\* time_points_mask = stim_label_allruns[5,:] == run_id
TimePointsMask(stim, r) == EqualsMask(Row(stim, 5), r)

LoadStimLabels ==
    /\ dpc = "load_timing"
    /\ stim_label_allruns' \in TimingFiles
    /\ dpc' = "run_selection"
    /\ UNCHANGED <<labels, run_id, time_points_mask, time_secs>>
    /\ UNCHANGED <<blockvars, simvars, nbvars, maskvars, maskedData, zvars, cvvars>>

\* The cell sets run_id = 1; exercise 3 repeats it for the other runs.
RunSelection ==
    /\ dpc = "run_selection"
    /\ \E r \in 1..vdc_n_runs :
          /\ run_id' = r
          /\ time_points_mask' = TimePointsMask(stim_label_allruns, r)
    /\ labels' = BoolIndex(Row(stim_label_allruns, 0), time_points_mask')
    /\ time_secs' = BoolIndex(Row(stim_label_allruns, 2), time_points_mask')
    /\ dpc' = "selected"
    /\ UNCHANGED stim_label_allruns
    /\ UNCHANGED <<blockvars, simvars, nbvars, maskvars, maskedData, zvars, cvvars>>

TimingInit ==
    /\ dpc = "load_timing" /\ labels = Unused /\ maskedData = Unused
    /\ IdleBlock /\ IdleSim /\ IdleNotebook /\ IdleTiming /\ IdleMask /\ IdleZ /\ IdleCV

TimingNext == LoadStimLabels \/ RunSelection

TimingSpec == TimingInit /\ [][TimingNext]_vars

\* The columns of the chosen run, and the k-th of a set of indices.
ColumnsOfRun == {j \in 1..Len(Row(stim_label_allruns, 5)) :
                    Row(stim_label_allruns, 5)[j] = run_id}

KthOf(S, k) == CHOOSE j \in S : Cardinality({i \in S : i < j}) = k - 1

\* C8: after the run selection cell, labels and time_secs have the same length,
\* the number of columns whose row 5 equals run_id, and their k-th entries are
\* the row 0 and row 2 entries of the k-th such column: the entries of that run
\* in column order, and none of another run.
C8_RunSelection ==
    dpc = "selected" =>
        /\ Len(labels) = Len(time_secs)
        /\ Len(labels) = Cardinality(ColumnsOfRun)
        /\ \A k \in 1..Len(labels) :
              /\ labels[k] = Row(stim_label_allruns, 0)[KthOf(ColumnsOfRun, k)]
              /\ time_secs[k] = Row(stim_label_allruns, 2)[KthOf(ColumnsOfRun, k)]

\* C8 witness: a run was selected that has two columns, with a column of another
\* run between them.
C8_Witness ==
    /\ dpc = "selected"
    /\ Len(labels) = 2
    /\ \E j \in 1..Len(time_points_mask) :
          /\ ~time_points_mask[j]
          /\ \E i \in 1..(j-1) : time_points_mask[i]
          /\ \E i \in (j+1)..Len(time_points_mask) : time_points_mask[i]

(***************************************************************************)
(* Part III.  Notebook 02: masking.                                        *)
(*                                                                         *)
(* A volume is flattened to its voxels in array order.  epi_data maps each *)
(* voxel to its time series (the last axis of the 4-d image), mask maps    *)
(* each voxel to whether it belongs to the ROI.                            *)
(***************************************************************************)
MaxVoxels == 3          \* largest number of voxels of a volume explored
MaxTRs == 2             \* largest number of volumes of a run explored

BoldValues == 0..1

\* An ROI mask selects at least one voxel (NiftiMasker rejects an empty mask).
RoiMasks(nvox) == {m \in [1..nvox -> BOOLEAN] : \E v \in 1..nvox : m[v]}

\* numpy: a.T for a 2-d array a with ncols columns.
Transpose(a, ncols) == [t \in 1..ncols |-> [j \in 1..Len(a) |-> a[j][t]]]

\* The number of volumes of a 4-d image.
NumTRs(img) == Len(img[1])

\* The masked series left as voxels x time.
ApplyMask_VoxelsByTime(img, m) == BoolIndex(img, m)

\* nifti_masker.fit_transform(epi_data): the time series of the voxels of the
\* mask, as a 2-d array of shape (volumes, voxels of the mask).
ApplyMask(img, m) == Transpose(BoolIndex(img, m), NumTRs(img))

LoadEpiData ==
    /\ dpc = "load_epi"
    /\ \E nvox \in 1..MaxVoxels, nt \in 1..MaxTRs :
          epi_data' \in [1..nvox -> [1..nt -> BoldValues]]
    /\ dpc' = "load_mask"
    /\ UNCHANGED <<mask, maskedData, labels>>
    /\ UNCHANGED <<blockvars, simvars, nbvars, timingvars, zvars, cvvars>>

LoadMask ==
    /\ dpc = "load_mask"
    /\ mask' \in RoiMasks(Len(epi_data))
    /\ dpc' = "apply_mask"
    /\ UNCHANGED <<epi_data, maskedData, labels>>
    /\ UNCHANGED <<blockvars, simvars, nbvars, timingvars, zvars, cvvars>>

Masking ==
    /\ dpc = "apply_mask"
    /\ maskedData' = ApplyMask(epi_data, mask)
    /\ dpc' = "masked"
    /\ UNCHANGED <<epi_data, mask, labels>>
    /\ UNCHANGED <<blockvars, simvars, nbvars, timingvars, zvars, cvvars>>

MaskInit ==
    /\ dpc = "load_epi" /\ labels = Unused /\ maskedData = Unused
    /\ IdleBlock /\ IdleSim /\ IdleNotebook /\ IdleTiming /\ IdleMask /\ IdleZ /\ IdleCV

MaskNext == LoadEpiData \/ LoadMask \/ Masking

MaskSpec == MaskInit /\ [][MaskNext]_vars

\* The voxels the ROI mask selects.
InMask == {v \in 1..Len(mask) : mask[v]}

\* C7: after the masking cell maskedData is time x voxels: it has one row per
\* volume of epi_data, every row has one entry per voxel of the mask, and column
\* j is the time series of the j-th voxel of the mask.
C7_MaskedIsTimeByVoxels ==
    dpc = "masked" =>
        /\ Len(maskedData) = NumTRs(epi_data)
        /\ \A t \in 1..Len(maskedData) :
              /\ Len(maskedData[t]) = Cardinality(InMask)
              /\ \A j \in 1..Cardinality(InMask) :
                    maskedData[t][j] = epi_data[KthOf(InMask, j)][t]

\* C7 witness: a mask that leaves out a voxel between two it keeps, applied to a
\* run of two volumes with more voxels than volumes.
C7_Witness ==
    /\ dpc = "masked"
    /\ Len(maskedData) = 2
    /\ mask = <<TRUE, FALSE, TRUE>>
    /\ epi_data[1] # epi_data[2] /\ epi_data[3] # epi_data[2]

(***************************************************************************)
(* Part IV.  Notebook 02: z-scoring with StandardScaler.                   *)
(*                                                                         *)
(* Numbers are kept exact.  For a column x of n entries with sum S, write  *)
(* d = n*x - S, so that x - mean = d / n, and Q for the sum of the d*d: the*)
(* variance (numpy's, ddof = 0) is Q / n^3.  A rational a/b is the pair    *)
(* <<a, b>>.  A scaled entry [num, den, s2] stands for                     *)
(* (num / den) / sqrt(s2[1] / s2[2]).                                      *)
(***************************************************************************)
MaxRows == 3            \* largest number of rows (TRs) of maskedData explored
MaxCols == 2            \* largest number of columns (voxels) of maskedData explored

NRows(X) == Len(X)

NCols(X) == Len(X[1])

Column(X, j) == [t \in 1..NRows(X) |-> X[t][j]]

Centered(col) == [t \in 1..Len(col) |-> Len(col) * col[t] - SumSeq(col)]

SumSq(q) == SumSeq([i \in 1..Len(q) |-> q[i] * q[i]])

Mean(col) == <<SumSeq(col), Len(col)>>

\* The sample variance (ddof = 1) in place of numpy's.
Variance_Sample(col) ==
    <<SumSq(Centered(col)), Len(col) * Len(col) * (Len(col) - 1)>>

Variance(col) == <<SumSq(Centered(col)), Len(col) * Len(col) * Len(col)>>

\* scale_ squared: the variance, or 1 where the variance is zero.
ScaleSquared(col) == IF Variance(col)[1] = 0 THEN <<1, 1>> ELSE Variance(col)

\* preprocessing.StandardScaler() constructed with only centering asked for.
DefaultParams_CenterOnly == [with_std |-> FALSE]

\* preprocessing.StandardScaler(): the defaults.
DefaultParams == [with_std |-> TRUE]

StandardScaler(params) ==
    [with_std |-> params.with_std, fitted |-> FALSE, mean_ |-> <<>>, scale2_ |-> <<>>]

Fit(sc, X) ==
    [sc EXCEPT !.fitted = TRUE,
               !.mean_ = [j \in 1..NCols(X) |-> Mean(Column(X, j))],
               !.scale2_ = [j \in 1..NCols(X) |->
                              IF sc.with_std THEN ScaleSquared(Column(X, j))
                              ELSE <<1, 1>>]]

Scaled(sc, X) ==
    [t \in 1..NRows(X) |-> [j \in 1..NCols(X) |->
        [num |-> sc.mean_[j][2] * X[t][j] - sc.mean_[j][1],
         den |-> sc.mean_[j][2],
         s2 |-> sc.scale2_[j]]]]

\* transform(X) with copy=True, the default: the result, and X as the call
\* leaves it.
Transform(sc, X) == [result |-> Scaled(sc, X), input |-> X]

\* np.mean(Z, axis=0) and np.std(Z, axis=0) of scaled entries; the entries of a
\* column share den and s2.  The standard deviation is kept as its square.
ColumnMean(Z, j) ==
    [num |-> SumSeq([t \in 1..NRows(Z) |-> Z[t][j].num]),
     den |-> Z[1][j].den * NRows(Z),
     s2 |-> Z[1][j].s2]

ColumnStd(Z, j) ==
    LET nums == [t \in 1..NRows(Z) |-> Z[t][j].num]
        n == NRows(Z)
    IN [sq |-> << (n * SumSq(nums) - SumSeq(nums) * SumSeq(nums)) * Z[1][j].s2[2],
                  n * n * Z[1][j].den * Z[1][j].den * Z[1][j].s2[1] >>]

\* scaler = preprocessing.StandardScaler().fit(maskedData)
FitFirst ==
    /\ dpc = "z1_fit"
    /\ scaler' = Fit(StandardScaler(DefaultParams), maskedData)
    /\ dpc' = "z1_transform"
    /\ UNCHANGED <<maskedData, maskedData_zscore, zscore_history, masked_loaded,
                   voxel_mean, voxel_std, labels>>
    /\ UNCHANGED <<blockvars, simvars, nbvars, timingvars, maskvars, cvvars>>

\* maskedData_zscore = scaler.transform(maskedData), the first and the second way
TransformFitted ==
    /\ dpc \in {"z1_transform", "z2_transform"}
    /\ scaler.fitted
    /\ maskedData_zscore' = Transform(scaler, maskedData).result
    /\ maskedData' = Transform(scaler, maskedData).input
    /\ zscore_history' = Append(zscore_history, maskedData_zscore')
    /\ dpc' = IF dpc = "z1_transform" THEN "z2_new" ELSE "z3_fit_transform"
    /\ UNCHANGED <<scaler, masked_loaded, voxel_mean, voxel_std, labels>>
    /\ UNCHANGED <<blockvars, simvars, nbvars, timingvars, maskvars, cvvars>>

\* The parameters of the scaler of the second way.
SecondScalerParams == DefaultParams

\* scaler = preprocessing.StandardScaler()
NewScaler ==
    /\ dpc = "z2_new"
    /\ scaler' = StandardScaler(SecondScalerParams)
    /\ dpc' = "z2_fit"
    /\ UNCHANGED <<maskedData, maskedData_zscore, zscore_history, masked_loaded,
                   voxel_mean, voxel_std, labels>>
    /\ UNCHANGED <<blockvars, simvars, nbvars, timingvars, maskvars, cvvars>>

\* scaler.fit(maskedData)
FitSecond ==
    /\ dpc = "z2_fit"
    /\ scaler' = Fit(scaler, maskedData)
    /\ dpc' = "z2_transform"
    /\ UNCHANGED <<maskedData, maskedData_zscore, zscore_history, masked_loaded,
                   voxel_mean, voxel_std, labels>>
    /\ UNCHANGED <<blockvars, simvars, nbvars, timingvars, maskvars, cvvars>>

\* maskedData_zscore = preprocessing.StandardScaler().fit_transform(maskedData):
\* fit(X).transform(X) on a scaler that is bound to no name.
FitTransform ==
    /\ dpc = "z3_fit_transform"
    /\ LET r == Transform(Fit(StandardScaler(DefaultParams), maskedData), maskedData)
       IN /\ maskedData_zscore' = r.result
          /\ maskedData' = r.input
    /\ zscore_history' = Append(zscore_history, maskedData_zscore')
    /\ dpc' = "check_zscore"
    /\ UNCHANGED <<scaler, masked_loaded, voxel_mean, voxel_std, labels>>
    /\ UNCHANGED <<blockvars, simvars, nbvars, timingvars, maskvars, cvvars>>

\* voxel_mean = np.mean(maskedData_zscore, axis=0); voxel_std = np.std(..., axis=0)
CheckZScore ==
    /\ dpc = "check_zscore"
    /\ voxel_mean' = [j \in 1..NCols(maskedData_zscore) |-> ColumnMean(maskedData_zscore, j)]
    /\ voxel_std' = [j \in 1..NCols(maskedData_zscore) |-> ColumnStd(maskedData_zscore, j)]
    /\ dpc' = "checked"
    /\ UNCHANGED <<maskedData, scaler, maskedData_zscore, zscore_history, masked_loaded,
                   labels>>
    /\ UNCHANGED <<blockvars, simvars, nbvars, timingvars, maskvars, cvvars>>

\* maskedData as the masking cell can leave it: time x voxels, at least one of each.
ZInit ==
    /\ dpc = "z1_fit" /\ labels = Unused
    /\ \E nt \in 1..MaxRows, nvox \in 1..MaxCols :
          maskedData \in [1..nt -> [1..nvox -> BoldValues]]
    /\ masked_loaded = maskedData
    /\ scaler = Unused /\ maskedData_zscore = Unused /\ zscore_history = <<>>
    /\ voxel_mean = Unused /\ voxel_std = Unused
    /\ IdleBlock /\ IdleSim /\ IdleNotebook /\ IdleTiming /\ IdleMask /\ IdleCV

ZNext ==
    \/ FitFirst
    \/ TransformFitted
    \/ NewScaler
    \/ FitSecond
    \/ FitTransform
    \/ CheckZScore

ZSpec == ZInit /\ [][ZNext]_vars

IsZero(m) == m.num = 0

StdIsOne(sd) == sd.sq[1] = sd.sq[2] /\ sd.sq[2] # 0

StdIsZero(sd) == sd.sq[1] = 0 /\ sd.sq[2] # 0

IsConstant(col) == \A s, t \in 1..Len(col) : col[s] = col[t]

ZChecked == dpc = "checked"

\* C5 as stated: after z-scoring, every voxel column of maskedData_zscore has
\* mean zero and standard deviation one, for every input matrix, a matrix with
\* a voxel that is constant over time included.
C5_EveryColumnUnitStd ==
    ZChecked => \A j \in 1..NCols(maskedData) :
                   IsZero(voxel_mean[j]) /\ StdIsOne(voxel_std[j])

\* C5, amended: after z-scoring, every voxel column of maskedData_zscore has
\* mean zero; its standard deviation is one when the voxel varies over time,
\* and when the voxel is constant over time the column is all zeros and its
\* standard deviation is zero.
C5_ZeroMeanUnitStdUnlessConstant ==
    ZChecked => \A j \in 1..NCols(maskedData) :
                   /\ IsZero(voxel_mean[j])
                   /\ ~IsConstant(Column(maskedData, j)) => StdIsOne(voxel_std[j])
                   /\ IsConstant(Column(maskedData, j)) =>
                         /\ StdIsZero(voxel_std[j])
                         /\ \A t \in 1..NRows(maskedData) : IsZero(maskedData_zscore[t][j])

\* A checked matrix of three time points with one varying and one constant voxel.
C5_Witness ==
    /\ ZChecked
    /\ maskedData = << <<0, 1>>, <<1, 1>>, <<1, 1>> >>
    /\ StdIsOne(voxel_std[1])
    /\ StdIsZero(voxel_std[2])

MaxBlocks == 3          \* largest number of blocks (samples) explored

Patterns == BoldValues

Samples(X) == 0..(Len(X) - 1)

At(X, i) == X[i + 1]

RECURSIVE Ascending(_)
Ascending(S) ==
    IF S = {} THEN <<>>
    ELSE LET lo == CHOOSE m \in S : \A x \in S : m <= x
         IN <<lo>> \o Ascending(S \ {lo})

\* X[idx]: the rows of X at the indices idx, in index order.
Take(X, idx) == [k \in 1..Cardinality(idx) |-> At(X, Ascending(idx)[k])]

\* PCA(n_components=20) fitted on the rows idx of X.
PCA_Fit(X, idx) == [seen |-> Take(X, idx), idx |-> idx]

\* The projection of one sample on the components of a fitted PCA.
PCA_Transform(fitted, x) == [by |-> fitted.seen, of |-> x]

PCA_TransformRows(fitted, X, idx) ==
    [k \in 1..Cardinality(idx) |-> PCA_Transform(fitted, Take(X, idx)[k])]

\* SVC(kernel="linear", C=1) fitted on (X, y).
SVC_Fit(X, y) == [X |-> X, y |-> y]

\* The PCA of section 3.5 fitted on the samples of the training runs of the
\* first fold only.
PCAFitRows_FirstTrainOnly(X, ids) == {i \in Samples(X) : At(ids, i) # At(ids, 0)}

\* pca.fit_transform(bold_normalized): every row of its argument.
PCAFitRows(X, ids) == Samples(X)

\* np.unique(test_fold) without -1.
UniqueFolds(test_fold) ==
    Ascending({test_fold[k] : k \in 1..Len(test_fold)} \ {-1})

\* The test samples of a fold: every sample of a run up to f.
TestMask_UpTo(test_fold, f) == {i \in Samples(test_fold) : At(test_fold, i) <= f}

\* The test samples of fold f: test_fold == f.
TestMask(test_fold, f) == {i \in Samples(test_fold) : At(test_fold, i) = f}

PredefinedSplit(test_fold) ==
    [test_fold |-> test_fold, unique_folds |-> UniqueFolds(test_fold)]

\* ps.split(X, y): one (train_index, test_index) per fold, the train indices
\* being those not in the test mask.
Split(cv) ==
    [k \in 1..Len(cv.unique_folds) |->
        [train_index |-> Samples(cv.test_fold) \ TestMask(cv.test_fold, cv.unique_folds[k]),
         test_index |-> TestMask(cv.test_fold, cv.unique_folds[k])]]

\* The rows a Pipeline under cross-validation would fit its first step on if
\* the whole data were given to it.
PipelineFitRows_AllData(train, test) == train \cup test

\* cross_validate fits a clone of the estimator on X[train], y[train].
PipelineFitRows(train, test) == train

\* One fold of cross_validate(pipe, X, y, cv=ps): Pipeline.fit is
\* reduce_dim.fit_transform followed by classify.fit on its output; scoring
\* transforms the test rows with the fitted reduce_dim.  A fit on no row raises.
FitAndScore(X, y, train, test) ==
    LET rows == PipelineFitRows(train, test)
        reduce_dim == PCA_Fit(X, rows)
        classify == SVC_Fit(PCA_TransformRows(reduce_dim, X, rows), Take(y, rows))
    IN IF rows = {}
       THEN [train |-> train, test |-> test, reduce_dim |-> "ValueError",
             classify |-> "ValueError", scored |-> <<>>]
       ELSE [train |-> train, test |-> test, reduce_dim |-> reduce_dim,
             classify |-> classify,
             scored |-> PCA_TransformRows(reduce_dim, X, test)]

CrossValidate(X, y, cv) ==
    [k \in 1..Len(Split(cv)) |->
        FitAndScore(X, y, Split(cv)[k].train_index, Split(cv)[k].test_index)]

\* decode(X, y, cv_ids, model): leave one run out; per fold the model is fitted
\* on the rows of the other runs and scored on the rows of the run.
Decode(X, y, cv_ids) ==
    [k \in 1..Len(UniqueFolds(cv_ids)) |->
        LET test == TestMask(cv_ids, UniqueFolds(cv_ids)[k])
            train == Samples(cv_ids) \ test
        IN [train |-> train, test |-> test,
            model |-> IF train = {} THEN "ValueError"
                      ELSE SVC_Fit(Take(X, train), Take(y, train)),
            scored |-> Take(X, test)]]

\* pca = PCA(n_components=20); bold_pca_normalized = pca.fit_transform(bold_normalized)
PCAFitTransform ==
    /\ dpc = "pca_fit"
    /\ pca' = PCA_Fit(bold_normalized, PCAFitRows(bold_normalized, run_ids))
    /\ bold_pca_normalized' =
          PCA_TransformRows(pca', bold_normalized, Samples(bold_normalized))
    /\ dpc' = "decode"
    /\ UNCHANGED <<run_ids, bold_normalized, other_normalized, models_pca, ps,
                   clf_pipe, other_clf_pipe, printed, labels>>
    /\ UNCHANGED <<blockvars, simvars, nbvars, timingvars, maskvars, maskedData, zvars>>

\* models_pca, scores_pca = decode(bold_pca_normalized, labels, run_ids, svc)
DecodePCA ==
    /\ dpc = "decode"
    /\ models_pca' = Decode(bold_pca_normalized, labels, run_ids)
    /\ dpc' = "pipeline"
    /\ UNCHANGED <<run_ids, bold_normalized, other_normalized, pca,
                   bold_pca_normalized, ps, clf_pipe, other_clf_pipe, printed, labels>>
    /\ UNCHANGED <<blockvars, simvars, nbvars, timingvars, maskvars, maskedData, zvars>>

\* ps = PredefinedSplit(run_ids); clf_pipe = cross_validate(pipe, bold_normalized,
\* labels, cv=ps, ...).  The same call on the second data set is run alongside.
PipelineCrossValidate ==
    /\ dpc = "pipeline"
    /\ ps' = PredefinedSplit(run_ids)
    /\ clf_pipe' = CrossValidate(bold_normalized, labels, ps')
    /\ other_clf_pipe' = CrossValidate(other_normalized, labels, ps')
    /\ printed' = <<>>
    /\ dpc' = "print_split"
    /\ UNCHANGED <<run_ids, bold_normalized, other_normalized, pca,
                   bold_pca_normalized, models_pca, labels>>
    /\ UNCHANGED <<blockvars, simvars, nbvars, timingvars, maskvars, maskedData, zvars>>

\* for cv_idx, (train_index, test_index) in enumerate(ps.split(...)): print them
PrintFold ==
    /\ dpc = "print_split"
    /\ Len(printed) < Len(Split(ps))
    /\ printed' = Append(printed,
                         [cv_idx |-> Len(printed),
                          train_index |-> Split(ps)[Len(printed) + 1].train_index,
                          test_index |-> Split(ps)[Len(printed) + 1].test_index])
    /\ UNCHANGED <<dpc, run_ids, bold_normalized, other_normalized, pca,
                   bold_pca_normalized, models_pca, ps, clf_pipe, other_clf_pipe, labels>>
    /\ UNCHANGED <<blockvars, simvars, nbvars, timingvars, maskvars, maskedData, zvars>>

\* the iterator is exhausted; print(clf_pipe) and the average accuracy
PrintResults ==
    /\ dpc = "print_split"
    /\ Len(printed) = Len(Split(ps))
    /\ dpc' = "printed"
    /\ UNCHANGED <<run_ids, bold_normalized, other_normalized, pca, bold_pca_normalized,
                   models_pca, ps, clf_pipe, other_clf_pipe, printed, labels>>
    /\ UNCHANGED <<blockvars, simvars, nbvars, timingvars, maskvars, maskedData, zvars>>

\* The blockwise data as the loading cell leaves it: run ids are those of the
\* label file less one; labels go round the conditions.  The second data set
\* differs from the first in the blocks of at most one run.
CVInit ==
    /\ dpc = "pca_fit"
    /\ \E n \in 1..MaxBlocks :
          /\ run_ids \in [1..n -> 0..(vdc_n_runs - 1)]
          /\ bold_normalized \in [1..n -> Patterns]
          /\ other_normalized \in [1..n -> Patterns]
          /\ labels = [k \in 1..n |-> ((k - 1) % Cardinality(vdc_label_keys)) + 1]
    /\ \E r \in 0..(vdc_n_runs - 1) :
          \A k \in 1..Len(run_ids) :
             run_ids[k] # r => other_normalized[k] = bold_normalized[k]
    /\ pca = Unused /\ bold_pca_normalized = Unused /\ models_pca = Unused
    /\ ps = Unused /\ clf_pipe = Unused /\ other_clf_pipe = Unused /\ printed = Unused
    /\ IdleBlock /\ IdleSim /\ IdleNotebook /\ IdleTiming /\ IdleMask /\ IdleZ /\ maskedData = Unused

CVNext ==
    \/ PCAFitTransform
    \/ DecodePCA
    \/ PipelineCrossValidate
    \/ PrintFold
    \/ PrintResults

CVSpec == CVInit /\ [][CVNext]_vars

CrossValidated == dpc \in {"print_split", "printed"}

AgreeOn(X, Y, idx) == \A i \in idx : At(X, i) = At(Y, i)

\* C1: in every fold of cross_validate the PCA is fitted on the fold's training
\* samples only and the fitted PCA is what transforms the fold's test samples;
\* two data sets that agree on a fold's training samples, whatever their test
\* samples, get the same fitted PCA and the same fitted classifier for that fold.
C1_TestSamplesDoNotReachFit ==
    CrossValidated =>
       \A k \in 1..Len(clf_pipe) :
          /\ other_clf_pipe[k].train = clf_pipe[k].train
          /\ clf_pipe[k].train # {} =>
                /\ clf_pipe[k].reduce_dim.idx = clf_pipe[k].train
                /\ \A j \in 1..Len(clf_pipe[k].scored) :
                      clf_pipe[k].scored[j].by = clf_pipe[k].reduce_dim.seen
                /\ Len(clf_pipe[k].scored) = Cardinality(clf_pipe[k].test)
          /\ AgreeOn(bold_normalized, other_normalized, clf_pipe[k].train) =>
                /\ other_clf_pipe[k].reduce_dim = clf_pipe[k].reduce_dim
                /\ other_clf_pipe[k].classify = clf_pipe[k].classify

\* Two data sets that differ in a test sample of a fold with a training set,
\* after cross-validation of both.
C1_Witness ==
    /\ CrossValidated
    /\ \E k \in 1..Len(clf_pipe) :
          /\ clf_pipe[k].train # {}
          /\ AgreeOn(bold_normalized, other_normalized, clf_pipe[k].train)
          /\ ~AgreeOn(bold_normalized, other_normalized, clf_pipe[k].test)
          /\ other_clf_pipe[k].scored # clf_pipe[k].scored

DistinctRunIds == {run_ids[k] : k \in 1..Len(run_ids)}

SamplesOfRun(r) == {i \in Samples(run_ids) : At(run_ids, i) = r}

\* C2: with run ids all >= 0, every printed fold has disjoint train and test
\* index sets that together cover every sample, and its test set is exactly the
\* samples of one run; once the loop is over, the test sets of different folds
\* are different, they partition the samples, and there are as many folds as
\* distinct run ids.
C2_PrintedFolds ==
    (printed # Unused /\ \A k \in 1..Len(run_ids) : run_ids[k] >= 0) =>
       /\ \A k \in 1..Len(printed) :
             /\ printed[k].train_index \cap printed[k].test_index = {}
             /\ printed[k].train_index \cup printed[k].test_index = Samples(run_ids)
             /\ \E r \in DistinctRunIds : printed[k].test_index = SamplesOfRun(r)
             /\ printed[k].cv_idx = k - 1
       /\ \A k, l \in 1..Len(printed) :
             k # l => /\ printed[k].test_index # printed[l].test_index
                      /\ printed[k].test_index \cap printed[l].test_index = {}
       /\ dpc = "printed" =>
             /\ UNION {printed[k].test_index : k \in 1..Len(printed)} = Samples(run_ids)
             /\ \A k \in 1..Len(printed) : printed[k].test_index # {}
             /\ Len(printed) = Cardinality(DistinctRunIds)

\* All folds printed for three blocks in two runs.
C2_Witness ==
    /\ dpc = "printed"
    /\ run_ids = <<0, 1, 0>>
    /\ Len(printed) = 2
    /\ printed[1].test_index = {0, 2}
    /\ printed[2].train_index = {0, 2}

\* C3: in section 3.5 the PCA is fitted on every sample before decode splits
\* them: once decode has run, the PCA was fitted on all samples, every row
\* decode was given is a projection by that PCA, and every test sample of
\* every decode fold is among the samples the PCA was fitted on.
C3_PCAFittedOnAllBeforeSplit ==
    /\ models_pca # Unused =>
          /\ pca # Unused
          /\ pca.idx = Samples(bold_normalized)
          /\ pca.seen = bold_normalized
          /\ \A k \in 1..Len(models_pca) :
                /\ models_pca[k].test \subseteq pca.idx
                /\ \A j \in 1..Len(models_pca[k].scored) :
                      models_pca[k].scored[j].by = pca.seen
    /\ dpc = "decode" => pca # Unused /\ models_pca = Unused

\* decode has run on several runs: a fold has test samples and training samples.
C3_Witness ==
    /\ models_pca # Unused
    /\ \E k \in 1..Len(models_pca) :
          /\ models_pca[k].test # {}
          /\ models_pca[k].train # {}
          /\ models_pca[k].test \subseteq pca.idx

(***************************************************************************)
(* Part VI.  Notebook 04: block averaging of the trialwise data.           *)
(*                                                                         *)
(* A trial's pattern is one value.  A block is a stretch of consecutive    *)
(* trials of one label in one run.  An average is kept exact, as the sum   *)
(* and the number of the values averaged.                                  *)
(***************************************************************************)
\* The trials scanned in order: a trial of the label and run of the open block
\* is added to it, any other trial opens a new block.
RECURSIVE ScanBlocks(_, _, _, _, _)
ScanBlocks(X, l, r, i, out) ==
    IF i > Len(l) THEN out
    ELSE IF out # <<>> /\ out[Len(out)].label = l[i] /\ out[Len(out)].run = r[i]
         THEN ScanBlocks(X, l, r, i + 1,
                         [out EXCEPT ![Len(out)].sum = @ + X[i], ![Len(out)].n = @ + 1])
         ELSE ScanBlocks(X, l, r, i + 1,
                         Append(out, [sum |-> X[i], n |-> 1, label |-> l[i], run |-> r[i]]))

\* A block average that leaves out the last trial of every block.
BlockMean_LastTrialLeftOut(b) ==
    IF b.n > 1 THEN [sum |-> b.sum - b.last, n |-> b.n - 1] ELSE [sum |-> b.sum, n |-> b.n]

\* np.mean over the trials of a block.
BlockMean(b) == [sum |-> b.sum, n |-> b.n]

\* blockwise_sampling(eventwise_data, eventwise_labels, eventwise_run_ids)
BlockwiseSamplingResult(X, l, r) ==
    LET blocks == ScanBlocks(X, l, r, 1, <<>>)
        ends == [k \in 1..Len(blocks) |->
                    SumSeq([j \in 1..k |-> blocks[j].n])]
    IN [bold_data |-> [k \in 1..Len(blocks) |->
                          BlockMean([sum |-> blocks[k].sum, n |-> blocks[k].n,
                                     last |-> X[ends[k]]])],
        labels |-> [k \in 1..Len(blocks) |-> blocks[k].label],
        run_ids |-> [k \in 1..Len(blocks) |-> blocks[k].run]]

\* bold_data, labels, run_ids = blockwise_sampling(bold_data_raw, labels_raw, run_ids_raw)
BlockwiseSampling ==
    /\ dpc = "blockwise_sampling"
    /\ LET res == BlockwiseSamplingResult(bold_data_raw, labels_raw, run_ids_raw)
       IN /\ bold_data' = res.bold_data
          /\ labels' = res.labels
          /\ run_ids' = res.run_ids
    /\ dpc' = "normalize_blockwise"
    /\ UNCHANGED <<bold_data_raw, labels_raw, run_ids_raw, simvars>>
    /\ UNCHANGED <<bold_normalized, other_normalized, pca, bold_pca_normalized,
                   models_pca, ps, clf_pipe, other_clf_pipe, printed>>
    /\ UNCHANGED <<nbvars, timingvars, maskvars, maskedData, zvars>>

\* The trialwise arrays as reshape_data and the label file leave them: one
\* pattern, one label and one run id per trial, the runs one after the other.
BlockInit ==
    /\ dpc = "blockwise_sampling"
    /\ \E n \in 1..MaxTrials :
          /\ bold_data_raw \in [1..n -> BoldValues]
          /\ labels_raw \in [1..n -> vdc_label_keys]
          /\ run_ids_raw \in [1..n -> 0..(vdc_n_runs - 1)]
    /\ \A i \in 1..(Len(run_ids_raw) - 1) : run_ids_raw[i] <= run_ids_raw[i + 1]
    /\ bold_data = Unused /\ labels = Unused /\ run_ids = Unused
    /\ bold_normalized = Unused /\ other_normalized = Unused
    /\ pca = Unused /\ bold_pca_normalized = Unused /\ models_pca = Unused
    /\ ps = Unused /\ clf_pipe = Unused /\ other_clf_pipe = Unused /\ printed = Unused
    /\ IdleSim /\ IdleNotebook /\ IdleTiming /\ IdleMask /\ IdleZ /\ maskedData = Unused

BlockNext == BlockwiseSampling

BlockSpec == BlockInit /\ [][BlockNext]_vars

\* The first trial of every block, and the trials of the block that starts at s.
BlockStarts ==
    {i \in 1..Len(labels_raw) :
        i = 1 \/ labels_raw[i] # labels_raw[i - 1] \/ run_ids_raw[i] # run_ids_raw[i - 1]}

TrialsOfBlock(s) ==
    {i \in s..Len(labels_raw) : \A j \in (s + 1)..i : j \notin BlockStarts}

Sampled == dpc = "normalize_blockwise"

MaxTimePoints == 3      \* largest length of activity and of cond_labels explored

time_shift == 2

CondValues == 0..2      \* 0 baseline, 1 face, 2 scene

\* np.where(a == v)[0]: the indices of the entries equal to v, in increasing order.
Where(a, v) == Ascending({i \in Samples(a) : At(a, i) = v})

\* idx + k
Shifted(idx, k) == [j \in 1..Len(idx) |-> idx[j] + k]

\* idx[idx <= n]: the entries up to n.
Below_OrEqual(idx, n) == BoolIndex(idx, [j \in 1..Len(idx) |-> idx[j] <= n])

\* idx[idx < n]: the entries below n, in order.
Below(idx, n) == BoolIndex(idx, [j \in 1..Len(idx) |-> idx[j] < n])

\* a[idx] raises IndexError when an index is at or beyond len(a); no index here
\* is negative.
InBounds(a, idx) == \A j \in 1..Len(idx) : idx[j] < Len(a)

Indexed(a, idx) == [j \in 1..Len(idx) |-> At(a, idx[j])]

\* face_labels = np.where(cond_labels == 1)[0] + time_shift
WhereFace ==
    /\ dpc = "where_face"
    /\ face_labels' = Shifted(Where(cond_labels, 1), time_shift)
    /\ dpc' = "where_scene"
    /\ UNCHANGED <<activity, cond_labels, scene_labels, baseline_labels,
                   face_activity, scene_activity, baseline_activity, raised>>
    /\ UNCHANGED <<blockvars, nbvars, timingvars, maskvars, maskedData, zvars, cvvars, labels>>

\* scene_labels = np.where(cond_labels == 2)[0] + time_shift
WhereScene ==
    /\ dpc = "where_scene"
    /\ scene_labels' = Shifted(Where(cond_labels, 2), time_shift)
    /\ dpc' = "where_baseline"
    /\ UNCHANGED <<activity, cond_labels, face_labels, baseline_labels,
                   face_activity, scene_activity, baseline_activity, raised>>
    /\ UNCHANGED <<blockvars, nbvars, timingvars, maskvars, maskedData, zvars, cvvars, labels>>

\* baseline_labels = np.where(cond_labels == 0)[0] + time_shift
WhereBaseline ==
    /\ dpc = "where_baseline"
    /\ baseline_labels' = Shifted(Where(cond_labels, 0), time_shift)
    /\ dpc' = "filter_baseline"
    /\ UNCHANGED <<activity, cond_labels, face_labels, scene_labels,
                   face_activity, scene_activity, baseline_activity, raised>>
    /\ UNCHANGED <<blockvars, nbvars, timingvars, maskvars, maskedData, zvars, cvvars, labels>>

\* baseline_labels = baseline_labels[baseline_labels < len(activity)]
FilterBaseline ==
    /\ dpc = "filter_baseline"
    /\ baseline_labels' = Below(baseline_labels, Len(activity))
    /\ dpc' = "index_face"
    /\ UNCHANGED <<activity, cond_labels, face_labels, scene_labels,
                   face_activity, scene_activity, baseline_activity, raised>>
    /\ UNCHANGED <<blockvars, nbvars, timingvars, maskvars, maskedData, zvars, cvvars, labels>>

\* face_activity = activity[face_labels]
IndexFace ==
    /\ dpc = "index_face"
    /\ IF InBounds(activity, face_labels)
       THEN face_activity' = Indexed(activity, face_labels)
            /\ dpc' = "index_scene" /\ raised' = raised
       ELSE face_activity' = face_activity
            /\ dpc' = "stopped" /\ raised' = "face_activity"
    /\ UNCHANGED <<activity, cond_labels, face_labels, scene_labels, baseline_labels,
                   scene_activity, baseline_activity>>
    /\ UNCHANGED <<blockvars, nbvars, timingvars, maskvars, maskedData, zvars, cvvars, labels>>

\* scene_activity = activity[scene_labels]
IndexScene ==
    /\ dpc = "index_scene"
    /\ IF InBounds(activity, scene_labels)
       THEN scene_activity' = Indexed(activity, scene_labels)
            /\ dpc' = "index_baseline" /\ raised' = raised
       ELSE scene_activity' = scene_activity
            /\ dpc' = "stopped" /\ raised' = "scene_activity"
    /\ UNCHANGED <<activity, cond_labels, face_labels, scene_labels, baseline_labels,
                   face_activity, baseline_activity>>
    /\ UNCHANGED <<blockvars, nbvars, timingvars, maskvars, maskedData, zvars, cvvars, labels>>

\* baseline_activity = activity[baseline_labels]
IndexBaseline ==
    /\ dpc = "index_baseline"
    /\ IF InBounds(activity, baseline_labels)
       THEN baseline_activity' = Indexed(activity, baseline_labels)
            /\ dpc' = "difference" /\ raised' = raised
       ELSE baseline_activity' = baseline_activity
            /\ dpc' = "stopped" /\ raised' = "baseline_activity"
    /\ UNCHANGED <<activity, cond_labels, face_labels, scene_labels, baseline_labels,
                   face_activity, scene_activity>>
    /\ UNCHANGED <<blockvars, nbvars, timingvars, maskvars, maskedData, zvars, cvvars, labels>>

\* activity and cond_labels as np.load returns them, each from its own file.
SimInit ==
    /\ dpc = "where_face" /\ labels = Unused /\ maskedData = Unused
    /\ \E na \in 1..MaxTimePoints : activity \in [1..na -> BoldValues]
    /\ \E nc \in 1..MaxTimePoints : cond_labels \in [1..nc -> CondValues]
    /\ face_labels = Unused /\ scene_labels = Unused /\ baseline_labels = Unused
    /\ face_activity = Unused /\ scene_activity = Unused /\ baseline_activity = Unused
    /\ raised = ""
    /\ IdleBlock /\ IdleNotebook /\ IdleTiming /\ IdleMask /\ IdleZ /\ IdleCV

SimNext ==
    \/ WhereFace
    \/ WhereScene
    \/ WhereBaseline
    \/ FilterBaseline
    \/ IndexFace
    \/ IndexScene
    \/ IndexBaseline

SimSpec == SimInit /\ [][SimNext]_vars

Filtered == dpc \in {"index_face", "index_scene", "index_baseline", "difference", "stopped"}

\* C13: after the filter every index in baseline_labels is below len(activity)
\* (and none is negative), and activity[baseline_labels] never raises IndexError,
\* for every cond_labels and the time shift of 2.
C13_BaselineInBounds ==
    /\ Filtered => \A j \in 1..Len(baseline_labels) :
                      baseline_labels[j] >= 0 /\ baseline_labels[j] < Len(activity)
    /\ raised # "baseline_activity"
    /\ dpc = "difference" => Len(baseline_activity) = Len(baseline_labels)

\* The filter has dropped a shifted baseline index and kept another, and
\* activity[baseline_labels] has been evaluated.
C13_Witness ==
    /\ dpc = "difference"
    /\ Len(activity) = 3 /\ cond_labels = <<0, 0, 0>>
    /\ baseline_labels = <<2>>
    /\ Len(baseline_activity) = 1

=============================================================================
